---- MODULE Spec2Model ----
(***************************************************************************)
(* Retrieval-and-grounding engine of the RAG document chat:                *)
(*   src/src/vector_store.py  QdrantVectorStore                            *)
(*   src/src/rag.py           RAGSystem                                    *)
(*   src/src/llm.py           OpenRouterClient                             *)
(*   src/src/file_loader.py   FileLoader._convert_chunks_to_documents      *)
(*   src/src/main.py          the upload, chat and clear handlers          *)
(*                                                                         *)
(* A Python str is a sequence of pieces; the string it denotes is the      *)
(* concatenation of the pieces.  Everything that is serialised, compared   *)
(* or stripped is held one character per piece.  Literal fragments of      *)
(* f-strings and of the prompt template are held as one piece each.        *)
(***************************************************************************)
EXTENDS Integers, Sequences, FiniteSets, TLC

VARIABLES
    exists,     \* the Qdrant collection named collection_name exists
    points,     \* the collection's points: a set of [id, vector, payload]
    history,    \* history[s]: RAGSystem.history of session s
    turns,      \* turns[s]: the (query, answer) pairs recorded since the last clear
    last,       \* what the last operation did and what its caller saw
    idDocs,     \* the two documents handed to _generate_id
    idOut,      \* the ids _generate_id returned for them ("none" before the call)
    calls       \* calls[c]: how far caller c's add_documents call has come

vars == <<exists, points, history, turns, last, idDocs, idOut, calls>>

----------------------------------------------------------------------------
(* Strings *)

\* The characters used, in code point order (Python compares str by code point).
CharOrder ==
    << "\n", " ", "\"", ",", "-", "0", "1", "2", "3", "4", "5", "6", "7", "8",
       "9", ":", "[", "\\", "]", "_", "a", "b", "c", "d", "e", "g", "h", "i",
       "l", "m", "n", "o", "p", "r", "t", "u", "y", "{", "}" >>

Ord(c) == CHOOSE i \in 1..Len(CharOrder) : CharOrder[i] = c

RECURSIVE StrLess(_, _)
StrLess(a, b) ==
    IF a = <<>> THEN b # <<>>
    ELSE IF b = <<>> THEN FALSE
    ELSE IF Head(a) = Head(b) THEN StrLess(Tail(a), Tail(b))
    ELSE Ord(Head(a)) < Ord(Head(b))

\* str.isspace() of one character
IsSpace(c) == c \in {" ", "\n", "\t", "\r"}

\* str.strip(): leading and trailing whitespace removed
RECURSIVE LStrip(_)
LStrip(s) == IF s # <<>> /\ IsSpace(Head(s)) THEN LStrip(Tail(s)) ELSE s

RECURSIVE RStrip(_)
RStrip(s) ==
    IF s # <<>> /\ IsSpace(s[Len(s)]) THEN RStrip(SubSeq(s, 1, Len(s) - 1)) ELSE s

Strip(s) == RStrip(LStrip(s))

RECURSIVE Concat(_)
Concat(ss) == IF ss = <<>> THEN <<>> ELSE Head(ss) \o Concat(Tail(ss))

\* join that also writes the separator after the last element
JoinTrailing(sep, ss) == Concat([i \in 1..Len(ss) |-> ss[i] \o sep])

\* sep.join(ss)
RECURSIVE Join(_, _)
Join(sep, ss) ==
    IF ss = <<>> THEN <<>>
    ELSE IF Len(ss) = 1 THEN ss[1]
    ELSE ss[1] \o sep \o Join(sep, Tail(ss))

----------------------------------------------------------------------------
(* Metadata values and json.dumps(metadata, sort_keys=True)                *)
(*                                                                         *)
(* A value is [int |-> n], [str |-> s], [bool |-> b], [list |-> values] or *)
(* [dict |-> items]; items is the dict's (key, value) pairs in insertion   *)
(* order, keys distinct: << [k |-> key, v |-> value], ... >>.              *)

IsInt(v) == DOMAIN v = {"int"}
IsStr(v) == DOMAIN v = {"str"}
IsBool(v) == DOMAIN v = {"bool"}
IsDict(v) == DOMAIN v = {"dict"}
IsList(v) == DOMAIN v = {"list"}

Digit(d) == <<"0", "1", "2", "3", "4", "5", "6", "7", "8", "9">>[d + 1]

RECURSIVE NatStr(_)
NatStr(n) == IF n < 10 THEN <<Digit(n)>> ELSE NatStr(n \div 10) \o <<Digit(n % 10)>>

IntStr(n) == IF n < 0 THEN <<"-">> \o NatStr(-n) ELSE NatStr(n)

\* the JSON escape of one character of a string
EscapeChar(c) ==
    CASE c = "\"" -> <<"\\", "\"">>
      [] c = "\\" -> <<"\\", "\\">>
      [] c = "\n" -> <<"\\", "n">>
      [] OTHER    -> <<c>>

RECURSIVE Escape(_)
Escape(s) == IF s = <<>> THEN <<>> ELSE EscapeChar(Head(s)) \o Escape(Tail(s))

JsonString(s) == <<"\"">> \o Escape(s) \o <<"\"">>

\* items with item x inserted before the first item whose key is greater
RECURSIVE InsertByKey(_, _)
InsertByKey(x, items) ==
    IF items = <<>> THEN <<x>>
    ELSE IF StrLess(x.k, Head(items).k) THEN <<x>> \o items
    ELSE <<Head(items)>> \o InsertByKey(x, Tail(items))

RECURSIVE SortItems(_)
SortItems(items) ==
    IF items = <<>> THEN <<>> ELSE InsertByKey(Head(items), SortItems(Tail(items)))

\* the mutant of DictItems that keeps insertion order (sort_keys dropped)
DictItemsUnsorted(items) == items

\* the order in which json.dumps(..., sort_keys=True) writes a dict's items
DictItems(items) == SortItems(items)

RECURSIVE Dumps(_)
RECURSIVE DumpsItems(_)
RECURSIVE DumpsElems(_)
DumpsElems(elems) ==
    IF elems = <<>> THEN <<>>
    ELSE Dumps(Head(elems))
         \o (IF Len(elems) > 1 THEN <<",", " ">> \o DumpsElems(Tail(elems)) ELSE <<>>)

DumpsItems(items) ==
    IF items = <<>> THEN <<>>
    ELSE JsonString(Head(items).k) \o <<":", " ">> \o Dumps(Head(items).v)
         \o (IF Len(items) > 1 THEN <<",", " ">> \o DumpsItems(Tail(items)) ELSE <<>>)

Dumps(v) ==
    CASE IsInt(v)  -> IntStr(v.int)
      [] IsStr(v)  -> JsonString(v.str)
      [] IsBool(v) -> IF v.bool THEN <<"t", "r", "u", "e">> ELSE <<"f", "a", "l", "s", "e">>
      [] IsList(v) -> <<"[">> \o DumpsElems(v.list) \o <<"]">>
      [] IsDict(v) -> <<"{">> \o DumpsItems(DictItems(v.dict)) \o <<"}">>

\* hashlib.md5(...).hexdigest(), the digest taken as collision-free
md5_hexdigest(s) == [md5 |-> s]

\* the mutant of HashedString that leaves the metadata out of the hash
HashedStringTextOnly(document) == document.page_content

\* the string _generate_id hashes
HashedString(document) ==
    document.page_content \o Dumps([dict |-> document.metadata])

_generate_id(document) == md5_hexdigest(HashedString(document))

\* dict equality in Python: the same keys with equal values, in any order
RECURSIVE SameValue(_, _)
SameValue(a, b) ==
    IF IsDict(a) /\ IsDict(b)
    THEN /\ Len(a.dict) = Len(b.dict)
         /\ \A i \in 1..Len(a.dict) :
                \E j \in 1..Len(b.dict) :
                    /\ a.dict[i].k = b.dict[j].k
                    /\ SameValue(a.dict[i].v, b.dict[j].v)
    ELSE IF IsList(a) /\ IsList(b)
    THEN /\ Len(a.list) = Len(b.list)
         /\ \A i \in 1..Len(a.list) : SameValue(a.list[i], b.list[i])
    ELSE a = b

SameDocument(d1, d2) ==
    /\ d1.page_content = d2.page_content
    /\ SameValue([dict |-> d1.metadata], [dict |-> d2.metadata])

\* metadata.get(key): the value, or [none |-> TRUE] for None
Get(metadata, key) ==
    IF \E i \in 1..Len(metadata) : metadata[i].k = key
    THEN metadata[CHOOSE i \in 1..Len(metadata) : metadata[i].k = key].v
    ELSE [none |-> TRUE]

IsNone(v) == DOMAIN v = {"none"}

\* bool(v)
Truthy(v) ==
    CASE IsNone(v) -> FALSE
      [] IsInt(v)  -> v.int # 0
      [] IsStr(v)  -> v.str # <<>>
      [] IsBool(v) -> v.bool
      [] IsList(v) -> v.list # <<>>
      [] IsDict(v) -> v.dict # <<>>

----------------------------------------------------------------------------
(* _generate_id as a function of its input: the documents it is tried on   *)

None == [none |-> TRUE]

K_year == <<"y", "e", "a", "r">>
K_dept == <<"d", "e", "p", "t">>
K_n == <<"n">>
K_tags == <<"t", "a", "g">>
V_hr == <<"h", "r">>

Item(key, value) == [k |-> key, v |-> value]

Year(n) == Item(K_year, [int |-> n])

\* user-supplied year/department tags in both insertion orders, nested
\* mappings in both orders, a string holding braces and a quote, a list
IdMetas ==
    { <<>>,
      <<Year(2013)>>,
      <<Year(2014)>>,
      <<Year(2013), Item(K_dept, [str |-> V_hr])>>,
      <<Item(K_dept, [str |-> V_hr]), Year(2013)>>,
      <<Item(K_n, [dict |-> <<Year(2013)>>])>>,
      <<Item(K_n, [dict |-> <<Year(2013), Item(K_dept, [str |-> V_hr])>>])>>,
      <<Item(K_n, [dict |-> <<Item(K_dept, [str |-> V_hr]), Year(2013)>>])>>,
      <<Item(K_dept, [str |-> <<"{", "\"", "}">>])>>,
      <<Item(K_tags, [list |-> <<[str |-> V_hr], [bool |-> TRUE]>>])>> }

IdBaseTexts == { <<>>, <<"a">> }

\* texts that end where a serialised metadata could begin: a base text followed
\* by the part of a serialisation that precedes one of its opening braces, or
\* by a whole serialisation
BeforeBraces(b, m) ==
    LET j == Dumps([dict |-> m])
    IN  { b \o SubSeq(j, 1, i - 1) : i \in { n \in 1..Len(j) : j[n] = "{" } }

IdTexts ==
    IdBaseTexts
    \cup UNION { BeforeBraces(b, m) : b \in IdBaseTexts, m \in IdMetas }
    \cup { b \o Dumps([dict |-> m]) : b \in IdBaseTexts, m \in {<<>>, <<Year(2013)>>} }

IdDocuments == [page_content : IdTexts, metadata : IdMetas]

----------------------------------------------------------------------------
(* The collaborators: the embedding model, the Qdrant backend, the LLM     *)

Sessions == {1, 2}

\* the sessions that upload: each has a QdrantVectorStore of its own on the
\* one collection name
Callers == {1, 2}

\* no add_documents call under way
NoCall == [pc |-> "idle", documents |-> <<>>, ok |-> FALSE]

\* bounds of the model
MaxBatch == 2       \* documents in one add_documents call
MaxTurns == 2       \* searches recorded in one session between two clears

Q1 == <<"Q1">>
Q2 == <<"Q2">>

\* a question and the answer text the LLM gives to it
Exchanges == { [q |-> Q1, a |-> <<"A1">>], [q |-> Q2, a |-> <<"A2">>] }

K_image == <<"i", "m", "a", "g", "e">>
V_b64 == <<"b", "a", "d", "e">>

\* a chunk tagged with a year, and one that also carries an image payload
MetaA == <<Year(2013)>>
MetaB == <<Year(2014), Item(K_image, [str |-> V_b64])>>
Metas == {MetaA, MetaB}

\* MetaB's mapping with its keys inserted in the other order
MetaBr == <<Item(K_image, [str |-> V_b64]), Year(2014)>>

DocA == [page_content |-> <<"a">>, metadata |-> MetaA]
DocB == [page_content |-> <<"b">>, metadata |-> MetaB]

\* one text under each metadata (one of them in both key orders), and an
\* empty and a whitespace-only document
Documents ==
    [page_content : { <<"a">> }, metadata : {MetaA, MetaB, MetaBr}]
    \cup [page_content : { <<>>, <<" ", "\n">> }, metadata : {MetaA}]

RECURSIVE SeqsUpTo(_, _)
SeqsUpTo(S, n) ==
    IF n = 0 THEN {<<>>}
    ELSE SeqsUpTo(S, n - 1)
         \cup { Append(q, x) : q \in { r \in SeqsUpTo(S, n - 1) : Len(r) = n - 1 }, x \in S }

Batches == SeqsUpTo(Documents, MaxBatch)

\* embeddings.embed_query(text): a fixed unit vector per text (scaled by 10;
\* normalize_embeddings is on), of the model's dimension
Embed(text) ==
    CASE text = <<>>       -> <<8, 6>>
      [] Head(text) = "a"  -> <<10, 0>>
      [] Head(text) = "b"  -> <<6, 8>>
      [] Head(text) = "Q1" -> <<10, 0>>
      [] Head(text) = "Q2" -> <<0, 10>>
      [] OTHER             -> <<8, 6>>

\* cosine similarity of two unit vectors, in hundredths
Cosine(u, v) == u[1] * v[1] + u[2] * v[2]

\* the collaborator calls of one operation that fail when it reaches them
IngestFaults ==
    {"none", "get_collections", "embed_dim", "create_collection", "embed_doc", "upsert"}
UploadFaults == IngestFaults \cup {"load_and_split"}
SearchFaults == {"none", "embed_query", "search"}

----------------------------------------------------------------------------
(* QdrantVectorStore *)

_get_embedding_dim == Len(Embed(<<"t", "e", "s", "t">>))

\* create_collection without the look at the existing collections: the
\* backend refuses to create a collection that exists
create_collection_unchecked(ex, fault) ==
    IF fault = "get_collections" \/ fault = "embed_dim"
    THEN [ok |-> FALSE, exists |-> ex, failed |-> fault,
          probed |-> fault = "embed_dim", created |-> FALSE]
    ELSE IF ex \/ fault = "create_collection"
    THEN [ok |-> FALSE, exists |-> ex, failed |-> "create_collection",
          probed |-> TRUE, created |-> FALSE]
    ELSE [ok |-> TRUE, exists |-> TRUE, failed |-> "none", probed |-> TRUE, created |-> TRUE]

\* create_collection: [ok, exists, failed, probed, created], exists being the
\* collection's existence afterwards, failed the call that raised, probed
\* whether _get_embedding_dim was called and created whether the backend
\* created the collection
create_collection(ex, fault) ==
    IF fault = "get_collections"
    THEN [ok |-> FALSE, exists |-> ex, failed |-> fault,
          probed |-> FALSE, created |-> FALSE]
    ELSE IF ex
    THEN [ok |-> TRUE, exists |-> TRUE, failed |-> "none",
          probed |-> FALSE, created |-> FALSE]
    ELSE IF fault \in {"embed_dim", "create_collection"}
    THEN [ok |-> FALSE, exists |-> FALSE, failed |-> fault,
          probed |-> TRUE, created |-> FALSE]
    ELSE [ok |-> TRUE, exists |-> TRUE, failed |-> "none",
          probed |-> TRUE, created |-> TRUE]

\* delete_collection without the look at the existing collections: the
\* backend call is made, and fails, for a collection that is not there
delete_collection_unchecked(ex, fault) ==
    IF fault = "get_collections" THEN [ok |-> FALSE, exists |-> ex, failed |-> fault]
    ELSE IF ~ex \/ fault = "delete_collection"
         THEN [ok |-> FALSE, exists |-> ex, failed |-> "delete_collection"]
    ELSE [ok |-> TRUE, exists |-> FALSE, failed |-> "none"]

\* delete_collection: [ok, exists, failed]
delete_collection(ex, fault) ==
    IF fault = "get_collections" THEN [ok |-> FALSE, exists |-> ex, failed |-> fault]
    ELSE IF ex /\ fault = "delete_collection"
         THEN [ok |-> FALSE, exists |-> ex, failed |-> fault]
    ELSE [ok |-> TRUE, exists |-> FALSE, failed |-> "none"]

\* the mutant of IsBlank that tests only for the empty string
IsBlankEmptyOnly(text) == text = <<>>

\* not doc.page_content or not doc.page_content.strip()
IsBlank(text) == text = <<>> \/ Strip(text) = <<>>

PointOf(doc) ==
    [ id      |-> _generate_id(doc),
      vector  |-> Embed(doc.page_content),
      payload |-> [text |-> doc.page_content, metadata |-> doc.metadata] ]

\* the points list add_documents builds: one point per non-blank document
RECURSIVE BuildPoints(_)
BuildPoints(documents) ==
    IF documents = <<>> THEN <<>>
    ELSE IF IsBlank(Head(documents).page_content) THEN BuildPoints(Tail(documents))
    ELSE <<PointOf(Head(documents))>> \o BuildPoints(Tail(documents))

\* the mutant of UpsertOne that adds the point beside an older one of the same id
UpsertOneAppend(pts, p) == pts \cup {p}

\* Qdrant upsert of one point: a point of the same id is replaced
UpsertOne(pts, p) == { x \in pts : x.id # p.id } \cup {p}

RECURSIVE Upsert(_, _)
Upsert(pts, ps) == IF ps = <<>> THEN pts ELSE Upsert(UpsertOne(pts, Head(ps)), Tail(ps))

TextsOf(ps) == [i \in 1..Len(ps) |-> ps[i].payload.text]

\* add_documents: [ok, exists, points, failed, embedded, upserted]; embedded
\* is the texts handed to embed_query, upserted the points handed to upsert.
\* A failing embedding fails at the first document embedded.
add_documents(ex, pts, documents, fault) ==
    LET cc == create_collection(ex, fault)
        built == BuildPoints(documents)
    IN  IF ~cc.ok
        THEN [ok |-> FALSE, exists |-> cc.exists, points |-> pts,
              failed |-> cc.failed, embedded |-> <<>>, upserted |-> <<>>]
        ELSE IF fault = "embed_doc" /\ built # <<>>
        THEN [ok |-> FALSE, exists |-> TRUE, points |-> pts,
              failed |-> fault, embedded |-> <<built[1].payload.text>>,
              upserted |-> <<>>]
        ELSE IF fault = "upsert"
        THEN [ok |-> FALSE, exists |-> TRUE, points |-> pts,
              failed |-> fault, embedded |-> TextsOf(built), upserted |-> built]
        ELSE [ok |-> TRUE, exists |-> TRUE, points |-> Upsert(pts, built),
              failed |-> "none", embedded |-> TextsOf(built), upserted |-> built]

\* the operator names _build_filter knows
OP_gte == <<"g", "t", "e">>
OP_lte == <<"l", "t", "e">>
OP_gt == <<"g", "t">>
OP_lt == <<"l", "t">>

\* RangeConditions giving up the whole object for one unknown operator name
RangeConditionsStrict(key, ops) ==
    IF \E i \in 1..Len(ops) : ops[i].k \notin {OP_gte, OP_lte, OP_gt, OP_lt} THEN <<>>
    ELSE [i \in 1..Len(ops) |->
            [key |-> key, kind |-> "range", op |-> ops[i].k, arg |-> ops[i].v]]

\* the FieldConditions of one operator object, in the order of its items
RECURSIVE RangeConditions(_, _)
RangeConditions(key, ops) ==
    IF ops = <<>> THEN <<>>
    ELSE (IF Head(ops).k \in {OP_gte, OP_lte, OP_gt, OP_lt}
          THEN <<[key |-> key, kind |-> "range", op |-> Head(ops).k, arg |-> Head(ops).v]>>
          ELSE <<>>)
         \o RangeConditions(key, Tail(ops))

RECURSIVE Conditions(_)
Conditions(items) ==
    IF items = <<>> THEN <<>>
    ELSE LET key == Head(items).k
             value == Head(items).v
         IN  (CASE IsDict(value) -> RangeConditions(key, value.dict)
                [] IsList(value) ->
                     <<[key |-> key, kind |-> "any", op |-> <<>>, arg |-> value]>>
                [] OTHER ->
                     <<[key |-> key, kind |-> "value", op |-> <<>>, arg |-> value]>>)
             \o Conditions(Tail(items))

\* _build_filter: None, or the conditions of Filter(must=conditions)
_build_filter(metadata_filter) ==
    IF IsNone(metadata_filter) \/ metadata_filter.dict = <<>> THEN None
    ELSE IF Conditions(metadata_filter.dict) = <<>> THEN None
    ELSE [must |-> Conditions(metadata_filter.dict)]

\* InRange with every bound included
InRangeInclusive(n, op, bound) ==
    CASE op \in {OP_gte, OP_gt} -> n >= bound
      [] op \in {OP_lte, OP_lt} -> n <= bound

\* Qdrant Range: gte and lte include the bound, gt and lt exclude it
InRange(n, op, bound) ==
    CASE op = OP_gte -> n >= bound
      [] op = OP_lte -> n <= bound
      [] op = OP_gt  -> n > bound
      [] op = OP_lt  -> n < bound

\* Qdrant match: the payload value is the wanted one, or a list holding it
Holds(v, wanted) ==
    \/ v = wanted
    \/ IsList(v) /\ \E j \in 1..Len(v.list) : v.list[j] = wanted

\* Qdrant: the payload field metadata.<key> satisfies one FieldCondition
Satisfies(payload, c) ==
    LET v == Get(payload.metadata, c.key)
    IN  CASE c.kind = "range" ->
               IsInt(v) /\ IsInt(c.arg) /\ InRange(v.int, c.op, c.arg.int)
          [] c.kind = "any" ->
               \E i \in 1..Len(c.arg.list) : Holds(v, c.arg.list[i])
          [] c.kind = "value" -> Holds(v, c.arg)

Passes(payload, qdrant_filter) ==
    IsNone(qdrant_filter)
    \/ \A i \in 1..Len(qdrant_filter.must) : Satisfies(payload, qdrant_filter.must[i])

Min(a, b) == IF a < b THEN a ELSE b

RECURSIVE Orderings(_)
Orderings(S) ==
    IF S = {} THEN {<<>>}
    ELSE UNION { { <<x>> \o r : r \in Orderings(S \ {x}) } : x \in S }

NonIncreasing(r) == \A i \in 1..(Len(r) - 1) : r[i].score >= r[i + 1].score

\* the points that pass the filter, scored against the query vector, in each
\* order by descending score: points of equal score come in an order the
\* backend chooses
Ranked(pts, query_vector, qdrant_filter) ==
    LET scored == { [id |-> p.id, score |-> Cosine(query_vector, p.vector),
                     payload |-> p.payload] :
                    p \in { x \in pts : Passes(x.payload, qdrant_filter) } }
    IN  { o \in Orderings(scored) : NonIncreasing(o) }

\* TopOf without the threshold
TopOfNoThreshold(o, k, score_threshold) == SubSeq(o, 1, Min(k, Len(o)))

\* TopOf without the limit
TopOfUncut(o, k, score_threshold) ==
    SelectSeq(o, LAMBDA h : h.score >= score_threshold)

\* score_threshold and limit applied to one ranking
TopOf(o, k, score_threshold) ==
    LET hits == SelectSeq(o, LAMBDA h : h.score >= score_threshold)
    IN  SubSeq(hits, 1, Min(k, Len(hits)))

\* Qdrant similarity search: the points that pass the filter and reach the
\* threshold, by descending score, cut to the first k
client_search(pts, query_vector, k, qdrant_filter, score_threshold) ==
    { TopOf(o, k, score_threshold) : o \in Ranked(pts, query_vector, qdrant_filter) }

\* QdrantVectorStore.search: the possible [results, failed, raised]; every
\* exception (of the embedding, of the backend, of a search in a collection
\* that does not exist) is caught and an empty list returned
VectorSearchOutcomes(ex, pts, query, k, metadata_filter, score_threshold, fault) ==
    IF fault = "embed_query"
    THEN { [results |-> <<>>, failed |-> fault, raised |-> FALSE] }
    ELSE IF fault = "search"
    THEN { [results |-> <<>>, failed |-> fault, raised |-> FALSE] }
    ELSE IF ~ex
    THEN { [results |-> <<>>, failed |-> "collection_missing", raised |-> FALSE] }
    ELSE { [results |-> r, failed |-> "none", raised |-> FALSE] :
           r \in client_search(pts, Embed(query), k, _build_filter(metadata_filter),
                               score_threshold) }

----------------------------------------------------------------------------
(* RAGSystem *)

K_content_type == <<"c", "o", "n", "t", "e", "n", "t", "_", "t", "y", "p", "e">>
K_page == <<"p", "a", "g", "e">>
K_table_caption == <<"t", "a", "b", "l", "e", "_", "c", "a", "p", "t", "i", "o", "n">>
K_figure_caption == <<"f", "i", "g", "u", "r", "e", "_", "c", "a", "p", "t", "i", "o", "n">>
K_picture_caption == <<"p", "i", "c", "t", "u", "r", "e", "_", "c", "a", "p", "t", "i", "o", "n">>
K_image_format == <<"i", "m", "a", "g", "e", "_", "f", "o", "r", "m", "a", "t">>
K_contains_table == <<"c", "o", "n", "t", "a", "i", "n", "s", "_", "t", "a", "b", "l", "e">>
K_contains_figure == <<"c", "o", "n", "t", "a", "i", "n", "s", "_", "f", "i", "g", "u", "r", "e">>
K_contains_picture == <<"c", "o", "n", "t", "a", "i", "n", "s", "_", "p", "i", "c", "t", "u", "r", "e">>
V_table == <<"t", "a", "b", "l", "e">>
V_figure == <<"f", "i", "g", "u", "r", "e">>
V_picture == <<"p", "i", "c", "t", "u", "r", "e">>

\* str.upper() of one character
UpperChar(c) ==
    IF \E i \in 1..26 : c = <<"a", "b", "c", "d", "e", "f", "g", "h", "i", "j", "k", "l", "m",
                              "n", "o", "p", "q", "r", "s", "t", "u", "v", "w", "x", "y",
                              "z">>[i]
    THEN <<"A", "B", "C", "D", "E", "F", "G", "H", "I", "J", "K", "L", "M", "N", "O", "P",
           "Q", "R", "S", "T", "U", "V", "W", "X", "Y", "Z">>[
             CHOOSE i \in 1..26 : c = <<"a", "b", "c", "d", "e", "f", "g", "h", "i", "j",
                                        "k", "l", "m", "n", "o", "p", "q", "r", "s", "t",
                                        "u", "v", "w", "x", "y", "z">>[i]]
    ELSE c

Upper(s) == [i \in 1..Len(s) |-> UpperChar(s[i])]

\* str(v) of a value an f-string formats
PyStr(v) ==
    CASE IsStr(v)  -> v.str
      [] IsInt(v)  -> IntStr(v.int)
      [] IsBool(v) -> IF v.bool THEN <<"T", "r", "u", "e">> ELSE <<"F", "a", "l", "s", "e">>
      [] OTHER     -> Dumps(v)

Separator == <<"\n", "-", "-", "-", "\n">>

\* the annotation lines _process_context derives from one result's metadata
\* (the emoji that open the three flag lines are written as words)
ContentInfo(metadata) ==
    LET content_type == Get(metadata, K_content_type)
        page == Get(metadata, K_page)
        page_info == <<"Page ">> \o (IF IsNone(page) THEN <<"unknown">> ELSE PyStr(page))
        tag == IF Truthy(content_type)
               THEN << <<"[">> \o Upper(content_type.str) \o <<" - ">> \o page_info \o <<"]">> >>
               ELSE <<>>
        caption ==
            IF ~Truthy(content_type) THEN <<>>
            ELSE IF content_type.str = V_table /\ Truthy(Get(metadata, K_table_caption))
            THEN << <<"Table Caption: ">> \o PyStr(Get(metadata, K_table_caption)) >>
            ELSE IF content_type.str = V_figure /\ Truthy(Get(metadata, K_figure_caption))
            THEN << <<"Figure Caption: ">> \o PyStr(Get(metadata, K_figure_caption)) >>
            ELSE IF content_type.str = V_picture /\ Truthy(Get(metadata, K_picture_caption))
            THEN << <<"Picture Caption: ">> \o PyStr(Get(metadata, K_picture_caption)) >>
                 \o (IF Truthy(Get(metadata, K_image_format))
                     THEN << <<"Image Format: ">> \o PyStr(Get(metadata, K_image_format)) >>
                     ELSE <<>>)
            ELSE <<>>
        flags ==
            (IF Truthy(Get(metadata, K_contains_table))
             THEN << <<"(chart) Contains Table">> >> ELSE <<>>)
            \o (IF Truthy(Get(metadata, K_contains_figure))
                THEN << <<"(graph) Contains Figure">> >> ELSE <<>>)
            \o (IF Truthy(Get(metadata, K_contains_picture))
                THEN << <<"(frame) Contains Picture">> >> ELSE <<>>)
    IN  tag \o caption \o flags

\* _process_context writing a placeholder when there are no results
ProcessContextPlaceholder(processed_results) ==
    IF processed_results = <<>> THEN <<"(no documents)">>
    ELSE Join(Separator, [i \in 1..Len(processed_results) |-> processed_results[i].text])

\* _process_context: each result's text and annotation lines joined by "\n",
\* the results joined by "\n---\n"
_process_context(processed_results) ==
    Join(Separator,
         [i \in 1..Len(processed_results) |->
            Join(<<"\n">>,
                 <<processed_results[i].text>>
                 \o ContentInfo(processed_results[i].metadata))])

\* the processed_results list RAGSystem.search builds from the scored points
Processed(results) ==
    [i \in 1..Len(results) |->
        [text |-> results[i].payload.text,
         metadata |-> results[i].payload.metadata,
         score |-> results[i].score]]

\* _create_prompt().format(history=..., context=..., question=...): the
\* template's fixed text around the three values, each substituted verbatim
FormatPrompt(hist, context, question) ==
    <<"<template: system, instructions, context>">> \o context
    \o <<"<template: conversation_history>">> \o hist
    \o <<"<template: user_question>">> \o question
    \o <<"<template: response_format, answer>">>

\* the mutant of Recorded that replaces the transcript by the last exchange
RecordedOverwrite(hist, query, content) ==
    <<"query: ">> \o query \o <<" \n answer: ">> \o content

\* self.history += f"query: {query} \n answer: {answer.content}"
Recorded(hist, query, content) ==
    hist \o <<"query: ">> \o query \o <<" \n answer: ">> \o content

\* the mutant of Record that keeps one transcript for every RAGSystem
RecordShared(h, s, query, content) ==
    [t \in DOMAIN h |-> Recorded(h[t], query, content)]

\* self.history is a field of the RAGSystem of session s
Record(h, s, query, content) == [h EXCEPT ![s] = Recorded(@, query, content)]

\* clear_history: self.history = ""
Cleared(h, s) == [h EXCEPT ![s] = <<>>]

\* what llm.invoke(prompt) sends for a str: one human message, plain text
InvokeMessage(prompt) == << [role |-> "human", text |-> prompt, parts |-> <<>>] >>

----------------------------------------------------------------------------
(* OpenRouterClient *)

ImagePart(image_base64) ==
    [type |-> "image_url", text |-> <<>>,
     url |-> <<"data:image/jpeg;base64,">> \o image_base64]

\* the messages OpenRouterClient.generate builds: an optional system message,
\* then a human message that is plain text when there are no images, and a
\* text part followed by one image_url part per image otherwise
generate_messages(system_prompt, prompt, images_base64) ==
    (IF system_prompt # <<>>
     THEN << [role |-> "system", text |-> system_prompt, parts |-> <<>>] >>
     ELSE <<>>)
    \o (IF images_base64 = <<>>
        THEN << [role |-> "human", text |-> prompt, parts |-> <<>>] >>
        ELSE << [role |-> "human", text |-> <<>>,
                 parts |-> << [type |-> "text", text |-> prompt, url |-> <<>>] >>
                           \o [i \in 1..Len(images_base64) |-> ImagePart(images_base64[i])]] >>)

----------------------------------------------------------------------------
(* FileLoader *)

\* {**chunk_metadata, **custom_metadata}: the chunk's items, a value replaced
\* where custom_metadata has the key, then custom_metadata's other items
MergeMetadata(chunk_metadata, custom_metadata) ==
    [i \in 1..Len(chunk_metadata) |->
        IF IsNone(Get(custom_metadata, chunk_metadata[i].k)) THEN chunk_metadata[i]
        ELSE Item(chunk_metadata[i].k, Get(custom_metadata, chunk_metadata[i].k))]
    \o SelectSeq(custom_metadata, LAMBDA it : IsNone(Get(chunk_metadata, it.k)))

\* _convert_chunks_to_documents: text stripped, empty chunks dropped
RECURSIVE _convert_chunks_to_documents(_, _)
_convert_chunks_to_documents(chunks, custom_metadata) ==
    IF chunks = <<>> THEN <<>>
    ELSE (IF Strip(Head(chunks).text) = <<>> THEN <<>>
          ELSE << [page_content |-> Strip(Head(chunks).text),
                   metadata |-> MergeMetadata(Head(chunks).meta, custom_metadata)] >>)
         \o _convert_chunks_to_documents(Tail(chunks), custom_metadata)

\* what the chunker hands over: text with surrounding whitespace, empty text
ChunkB == [text |-> <<"b", "\n">>, meta |-> MetaA]
Chunks ==
    { [text |-> <<>>, meta |-> <<>>],
      [text |-> <<" ", "a">>, meta |-> <<>>],
      ChunkB }
ChunkLists == SeqsUpTo(Chunks, MaxBatch)

----------------------------------------------------------------------------
(* The state machine *)

\* main's call: search(query=user_query, score_threshold=0.1), no filter
DefaultThreshold == 10

TopK == 10

Idle ==
    [ op |-> "none", session |-> 0, query |-> <<>>, failed |-> "none",
      outcome |-> "none", error |-> "none",
      prompt |-> [history |-> <<>>, context |-> <<>>, question |-> <<>>],
      message |-> <<>>, sources |-> <<>>, answer |-> <<>>,
      documents |-> <<>>, ok |-> TRUE, embedded |-> <<>>, upserted |-> <<>>,
      shown |-> "none", shownCount |-> 0,
      k |-> 0, filter |-> None, compiled |-> None, threshold |-> 0,
      again |-> [threshold |-> 0, results |-> <<>>],
      probed |-> FALSE, created |-> FALSE, existed |-> FALSE,
      results |-> <<>> ]

IdRest == <<[page_content |-> <<>>, metadata |-> <<>>], [page_content |-> <<>>, metadata |-> <<>>]>>

Init ==
    /\ exists = FALSE
    /\ points = {}
    /\ history = [s \in Sessions |-> <<>>]
    /\ turns = [s \in Sessions |-> <<>>]
    /\ last = Idle
    /\ idDocs = IdRest
    /\ idOut = <<None, None>>
    /\ calls = [c \in Callers |-> NoCall]

\* QdrantVectorStore.create_collection called on its own
CreateCollection(fault) ==
    \E r \in {create_collection(exists, fault)} :
        /\ exists' = r.exists
        /\ last' = [Idle EXCEPT !.op = "create_collection", !.ok = r.ok,
                                !.failed = r.failed, !.outcome = "returned",
                                !.probed = r.probed, !.created = r.created]
        /\ UNCHANGED <<points, history, turns, idDocs, idOut, calls>>

\* QdrantVectorStore.delete_collection called on its own
DeleteCollection(fault) ==
    \E r \in {delete_collection(exists, fault)} :
        /\ exists' = r.exists
        /\ points' = IF r.exists THEN points ELSE {}
        /\ last' = [Idle EXCEPT !.op = "delete_collection", !.ok = r.ok,
                                !.failed = r.failed, !.outcome = "returned",
                                !.existed = exists]
        /\ UNCHANGED <<history, turns, idDocs, idOut, calls>>

\* RAGSystem.add_documents(documents): the vector store's add_documents, its
\* bool dropped (the method returns None)
AddDocuments(documents, fault) ==
    \E r \in {add_documents(exists, points, documents, fault)} :
        /\ exists' = r.exists
        /\ points' = r.points
        /\ last' = [Idle EXCEPT !.op = "add_documents", !.documents = documents,
                                !.ok = r.ok, !.failed = r.failed,
                                !.embedded = r.embedded, !.upserted = r.upserted,
                                !.outcome = "returned"]
        /\ UNCHANGED <<history, turns, idDocs, idOut, calls>>

\* main's "Upload to Knowledge Base" handler: load_and_split, add_documents,
\* then the success banner and the count of document chunks; an exception of
\* load_and_split is shown as an error
Upload(chunks, custom_metadata, fault) ==
    IF fault = "load_and_split"
    THEN /\ last' = [Idle EXCEPT !.op = "upload", !.failed = fault,
                                 !.ok = FALSE, !.outcome = "raised", !.shown = "error"]
         /\ UNCHANGED <<exists, points, history, turns, idDocs, idOut, calls>>
    ELSE \E documents \in {_convert_chunks_to_documents(chunks, custom_metadata)} :
         \E r \in {add_documents(exists, points, documents, fault)} :
             /\ exists' = r.exists
             /\ points' = r.points
             /\ last' = [Idle EXCEPT !.op = "upload", !.documents = documents,
                                     !.ok = r.ok, !.failed = r.failed,
                                     !.embedded = r.embedded, !.upserted = r.upserted,
                                     !.outcome = "returned",
                                     !.shown = "success", !.shownCount = Len(documents)]
             /\ UNCHANGED <<history, turns, idDocs, idOut, calls>>

\* RAGSystem.search(query, metadata_filter, score_threshold) of session s:
\* vector search, context, prompt, llm.invoke, then the transcript.  An
\* exception of llm.invoke leaves the method as it is.
Search(s, query, metadata_filter, score_threshold, fault, llmFails, content) ==
    /\ llmFails \/ Len(turns[s]) < MaxTurns
    /\ \E vs \in VectorSearchOutcomes(exists, points, query, TopK, metadata_filter,
                                      score_threshold, fault) :
       \E context \in {_process_context(Processed(vs.results))} :
       \E call \in {[Idle EXCEPT !.op = "search", !.session = s, !.query = query,
                                 !.k = TopK, !.filter = metadata_filter,
                                 !.threshold = score_threshold,
                                 !.failed = vs.failed,
                                 !.prompt = [history |-> history[s], context |-> context,
                                             question |-> query],
                                 !.message = InvokeMessage(
                                                FormatPrompt(history[s], context, query)),
                                 !.sources = vs.results]} :
            IF llmFails
            THEN /\ last' = [call EXCEPT !.outcome = "raised", !.error = "raw",
                                         !.ok = FALSE,
                                         !.failed = IF vs.failed = "none" THEN "llm"
                                                    ELSE vs.failed]
                 /\ UNCHANGED <<history, turns>>
            ELSE /\ history' = Record(history, s, query, content)
                 /\ turns' = [turns EXCEPT ![s] = Append(@, [q |-> query, a |-> content])]
                 /\ last' = [call EXCEPT !.outcome = "returned", !.answer = content]
    /\ UNCHANGED <<exists, points, idDocs, idOut, calls>>

\* RAGSystem.clear_history() of session s (main's "Clear Chat History")
ClearHistory(s) ==
    /\ history' = Cleared(history, s)
    /\ turns' = [turns EXCEPT ![s] = <<>>]
    /\ last' = [Idle EXCEPT !.op = "clear_history", !.session = s, !.outcome = "returned"]
    /\ UNCHANGED <<exists, points, idDocs, idOut, calls>>

\* the chat application: two sessions asking and clearing, documents
\* arriving one at a time
Next ==
    \/ \E fault \in {"none", "get_collections", "embed_dim", "create_collection"} :
          CreateCollection(fault)
    \/ \E fault \in {"none", "get_collections", "delete_collection"} :
          DeleteCollection(fault)
    \/ \E documents \in SeqsUpTo({DocA, DocB}, 1), fault \in IngestFaults :
          AddDocuments(documents, fault)
    \/ \E chunks \in SeqsUpTo({ChunkB}, 1), fault \in {"none", "load_and_split", "embed_doc"} :
          Upload(chunks, MetaB, fault)
    \/ \E s \in Sessions, x \in Exchanges, fault \in SearchFaults, llmFails \in BOOLEAN :
          Search(s, x.q, None, DefaultThreshold, fault, llmFails, x.a)
    \/ \E s \in Sessions : ClearHistory(s)

Spec == Init /\ [][Next]_vars

----------------------------------------------------------------------------
(* _generate_id applied to two documents *)

InitId ==
    /\ exists = FALSE
    /\ points = {}
    /\ history = [s \in Sessions |-> <<>>]
    /\ turns = [s \in Sessions |-> <<>>]
    /\ last = Idle
    /\ idDocs \in IdDocuments \X IdDocuments
    /\ idOut = <<None, None>>
    /\ calls = [c \in Callers |-> NoCall]

GenerateId(i) ==
    /\ IsNone(idOut[i])
    /\ idOut' = [idOut EXCEPT ![i] = _generate_id(idDocs[i])]
    /\ UNCHANGED <<exists, points, history, turns, last, idDocs, calls>>

NextId == \E i \in {1, 2} : GenerateId(i)

SpecId == InitId /\ [][NextId]_vars

----------------------------------------------------------------------------
(* Ingestion alone: every batch of up to MaxBatch documents, the collection *)
(* created and deleted in between                                          *)

NextIngest ==
    \/ \E fault \in {"none", "get_collections", "embed_dim", "create_collection"} :
          CreateCollection(fault)
    \/ \E fault \in {"none", "get_collections", "delete_collection"} :
          DeleteCollection(fault)
    \/ \E documents \in Batches, fault \in {"none", "upsert"} :
          AddDocuments(documents, fault)
    \/ \E chunks \in ChunkLists, fault \in {"none", "load_and_split"} :
          Upload(chunks, MetaA, fault)

SpecIngest == Init /\ [][NextIngest]_vars

----------------------------------------------------------------------------
(* QdrantVectorStore.search on its own: filters, thresholds and limits      *)

\* chunks of the years 2010, 2013 and 2020 (the first and the last of the
\* same text, so of equal score for every query) and one without a year
D2010 == [page_content |-> <<"a">>, metadata |-> <<Year(2010)>>]
D2013 == [page_content |-> <<"b">>,
          metadata |-> <<Year(2013), Item(K_dept, [str |-> V_hr])>>]
D2020 == [page_content |-> <<"a">>, metadata |-> <<Year(2020)>>]
DNoYear == [page_content |-> <<"c">>, metadata |-> <<Item(K_dept, [str |-> V_hr])>>]
SearchDocuments == {D2010, D2013, D2020, DNoYear}

\* an operator name _build_filter does not know
OP_near == <<"n", "e", "a", "r">>

Flt(items) == [dict |-> items]
YearIs(value) == Flt(<<Item(K_year, value)>>)
YearOps(ops) == YearIs([dict |-> ops])
Op(name, n) == Item(name, [int |-> n])

F_lte2013 == YearOps(<<Op(OP_lte, 2013)>>)
F_in2013_2020 == YearIs([list |-> <<[int |-> 2013], [int |-> 2020]>>])

\* the metadata_filter values tried: none, empty, a scalar, lists, operator
\* objects (one, two, no and unknown operators), two keys
Filters ==
    { None, Flt(<<>>),
      YearIs([int |-> 2013]),
      F_in2013_2020,
      YearIs([list |-> <<>>]),
      F_lte2013,
      YearOps(<<Op(OP_gte, 2013)>>),
      YearOps(<<Op(OP_gt, 2013)>>),
      YearOps(<<Op(OP_lt, 2013)>>),
      YearOps(<<Op(OP_gt, 2010), Op(OP_lte, 2020)>>),
      YearOps(<<>>),
      YearOps(<<Op(OP_near, 2013)>>),
      YearOps(<<Op(OP_near, 2010), Op(OP_gte, 2013)>>),
      Flt(<<Item(K_dept, [str |-> V_hr]), Item(K_year, [dict |-> <<Op(OP_lte, 2013)>>])>>),
      Flt(<<Item(K_dept, [str |-> V_hr]), Item(K_year, [dict |-> <<Op(OP_near, 2013)>>])>>) }

\* limits below, at and above the number of chunks; RAGSystem's own is TopK
Limits == {1, 2, TopK}

\* score thresholds in hundredths: main's 0.1, one between the scores, and
\* one above every score
Thresholds == {DefaultThreshold, 70, 101}

\* QdrantVectorStore.search(query, k, metadata_filter, score_threshold)
VectorSearch(query, k, metadata_filter, score_threshold, fault) ==
    \E vs \in VectorSearchOutcomes(exists, points, query, k, metadata_filter,
                                   score_threshold, fault) :
        /\ last' = [Idle EXCEPT !.op = "vector_search", !.query = query, !.k = k,
                                !.filter = metadata_filter,
                                !.compiled = _build_filter(metadata_filter),
                                !.threshold = score_threshold,
                                !.failed = vs.failed, !.sources = vs.results,
                                !.outcome = IF vs.raised THEN "raised" ELSE "returned"]
        /\ UNCHANGED <<exists, points, history, turns, idDocs, idOut, calls>>

\* the same search called twice on the same collection, with a lower and
\* then a higher score_threshold
SearchTwice(query, k, metadata_filter, lower, higher) ==
    /\ lower < higher
    /\ \E a \in VectorSearchOutcomes(exists, points, query, k, metadata_filter,
                                     lower, "none") :
       \E b \in VectorSearchOutcomes(exists, points, query, k, metadata_filter,
                                     higher, "none") :
          last' = [Idle EXCEPT !.op = "vector_search_twice", !.query = query, !.k = k,
                               !.filter = metadata_filter,
                               !.compiled = _build_filter(metadata_filter),
                               !.threshold = lower,
                               !.failed = a.failed, !.sources = a.results,
                               !.again = [threshold |-> higher, results |-> b.results],
                               !.outcome = "returned"]
    /\ UNCHANGED <<exists, points, history, turns, idDocs, idOut, calls>>

NextSearch ==
    \/ \E fault \in {"none", "get_collections", "delete_collection"} :
          DeleteCollection(fault)
    \/ \E d \in SearchDocuments, fault \in {"none", "upsert"} :
          AddDocuments(<<d>>, fault)
    \/ \E query \in {Q1, Q2}, f \in Filters, t \in Thresholds :
          VectorSearch(query, TopK, f, t, "none")
    \/ \E query \in {Q1, Q2}, k \in Limits, f \in {None, F_in2013_2020}, t \in Thresholds :
          VectorSearch(query, k, f, t, "none")
    \/ \E fault \in SearchFaults : VectorSearch(Q1, TopK, F_lte2013, DefaultThreshold, fault)
    \/ Search(1, Q1, None, DefaultThreshold, "none", FALSE, <<"A1">>)
    \/ \E query \in {Q1, Q2}, k \in Limits, f \in {None, F_in2013_2020},
          lower \in Thresholds, higher \in Thresholds :
          SearchTwice(query, k, f, lower, higher)

SpecSearch == Init /\ [][NextSearch]_vars

----------------------------------------------------------------------------
(* _process_context as a function of its input: the results it is tried on *)

MaxResults == 2     \* results in one processed_results list

\* texts: plain, empty, ending in a line of three dashes, being one, and
\* holding the separator
ContextTexts ==
    { <<"a">>, <<"b">>, <<>>,
      <<"a", "\n", "-", "-", "-">>,
      <<"-", "-", "-">>,
      <<"a", "\n", "-", "-", "-", "\n", "b">> }

\* metadata: none, a table on page 1, the contains_table flag
ContextMetas ==
    { <<>>,
      <<Item(K_content_type, [str |-> V_table]), Item(K_page, [int |-> 1])>>,
      <<Item(K_contains_table, [bool |-> TRUE])>> }

ProcessedResults == [text : ContextTexts, metadata : ContextMetas, score : {80}]

InitContext ==
    /\ exists = FALSE
    /\ points = {}
    /\ history = [s \in Sessions |-> <<>>]
    /\ turns = [s \in Sessions |-> <<>>]
    /\ last \in { [Idle EXCEPT !.results = r] : r \in SeqsUpTo(ProcessedResults, MaxResults) }
    /\ idDocs = IdRest
    /\ idOut = <<None, None>>
    /\ calls = [c \in Callers |-> NoCall]

\* RAGSystem._process_context(processed_results)
ProcessContext ==
    /\ last.op = "none"
    /\ last' = [last EXCEPT !.op = "process_context", !.outcome = "returned",
                            !.prompt.context = _process_context(last.results)]
    /\ UNCHANGED <<exists, points, history, turns, idDocs, idOut, calls>>

NextContext == ProcessContext

SpecContext == InitContext /\ [][NextContext]_vars

----------------------------------------------------------------------------
(* add_documents of two callers, one backend call at a time                *)

\* add_documents(documents) is entered: create_collection comes first
AddBegin(c, documents) ==
    /\ calls[c].pc = "idle"
    /\ calls' = [calls EXCEPT ![c] = [pc |-> "get_collections", documents |-> documents,
                                      ok |-> FALSE]]
    /\ UNCHANGED <<exists, points, history, turns, last, idDocs, idOut>>

\* create_collection: client.get_collections() and the test for the name
AddListCollections(c) ==
    /\ calls[c].pc = "get_collections"
    /\ calls' = [calls EXCEPT ![c].pc = IF exists THEN "upsert" ELSE "create_collection"]
    /\ UNCHANGED <<exists, points, history, turns, last, idDocs, idOut>>

\* create_collection: client.create_collection(...); the backend refuses a
\* name that exists, the exception is caught, create_collection returns
\* False and so does add_documents
AddCreateCollection(c) ==
    /\ calls[c].pc = "create_collection"
    /\ IF exists
       THEN /\ calls' = [calls EXCEPT ![c].pc = "done", ![c].ok = FALSE]
            /\ UNCHANGED exists
       ELSE /\ calls' = [calls EXCEPT ![c].pc = "upsert"]
            /\ exists' = TRUE
    /\ UNCHANGED <<points, history, turns, last, idDocs, idOut>>

\* the points are built and client.upsert is called; add_documents returns
AddUpsert(c) ==
    /\ calls[c].pc = "upsert"
    /\ IF exists
       THEN /\ points' = Upsert(points, BuildPoints(calls[c].documents))
            /\ calls' = [calls EXCEPT ![c].pc = "done", ![c].ok = TRUE]
       ELSE /\ calls' = [calls EXCEPT ![c].pc = "done", ![c].ok = FALSE]
            /\ UNCHANGED points
    /\ UNCHANGED <<exists, history, turns, last, idDocs, idOut>>

\* the caller goes on and may upload again
AddReturn(c) ==
    /\ calls[c].pc = "done"
    /\ calls' = [calls EXCEPT ![c] = NoCall]
    /\ UNCHANGED <<exists, points, history, turns, last, idDocs, idOut>>

NextRace ==
    \E c \in Callers :
        \/ \E documents \in SeqsUpTo({DocA, DocB}, MaxBatch) \ {<<>>} : AddBegin(c, documents)
        \/ AddListCollections(c)
        \/ AddCreateCollection(c)
        \/ AddUpsert(c)
        \/ AddReturn(c)

SpecRace == Init /\ [][NextRace]_vars

----------------------------------------------------------------------------
(* Properties *)

BothGenerated == ~IsNone(idOut[1]) /\ ~IsNone(idOut[2])

\* C2: two documents whose (text, metadata) pairs differ, in the text or in
\* any metadata value, get different ids: the text followed by the
\* serialised metadata is a different string for each pair.
C2_IdSensitive ==
    (BothGenerated /\ ~SameDocument(idDocs[1], idDocs[2])) => idOut[1] # idOut[2]

\* the ids of the same text under year 2013 and under year 2014
C2_Witness ==
    /\ BothGenerated
    /\ idDocs[1].page_content = idDocs[2].page_content
    /\ idDocs[1].metadata = <<Year(2013)>>
    /\ idDocs[2].metadata = <<Year(2014)>>
    /\ idOut[1] # idOut[2]

\* C3: two documents with the same text and the same metadata mapping, the
\* keys inserted in any order at the top level or in a nested mapping, get
\* the same id.
C3_IdOrderInsensitive ==
    (BothGenerated /\ SameDocument(idDocs[1], idDocs[2])) => idOut[1] = idOut[2]

\* the ids of one text under a nested mapping written in two key orders
C3_Witness ==
    /\ BothGenerated
    /\ idDocs[1].page_content = <<"a">>
    /\ idDocs[1].metadata = <<Item(K_n, [dict |-> <<Year(2013), Item(K_dept, [str |-> V_hr])>>])>>
    /\ idDocs[2].metadata = <<Item(K_n, [dict |-> <<Item(K_dept, [str |-> V_hr]), Year(2013)>>])>>
    /\ SameDocument(idDocs[1], idDocs[2])
    /\ idOut[1] = idOut[2]

\* every character of the text is whitespace (the empty text included)
AllSpace(text) == \A i \in 1..Len(text) : IsSpace(text[i])

DocOf(p) == [page_content |-> p.payload.text, metadata |-> p.payload.metadata]

PointsFor(doc) == { p \in points : SameDocument(DocOf(p), doc) }

Ingested == last.op \in {"add_documents", "upload"} /\ last.ok

\* C1: no chunk has two points, and after an ingestion that succeeded every
\* non-blank chunk of the batch has exactly one point, also when the batch
\* holds it twice or an earlier call ingested it already.
C1_IdempotentIngestion ==
    /\ \A p, q \in points : SameDocument(DocOf(p), DocOf(q)) => p = q
    /\ Ingested =>
         \A i \in 1..Len(last.documents) :
             ~AllSpace(last.documents[i].page_content)
                 => Cardinality(PointsFor(last.documents[i])) = 1

\* a batch holding the same chunk twice was upserted and left one point
C1_Witness ==
    /\ last.op = "add_documents"
    /\ last.ok
    /\ Len(last.documents) = 2
    /\ SameDocument(last.documents[1], last.documents[2])
    /\ Len(last.upserted) = 2
    /\ Cardinality(PointsFor(last.documents[1])) = 1
    /\ Cardinality(points) = 1

\* C4: no point has an empty or whitespace-only text; such a document is
\* neither embedded nor handed to upsert, and the other documents of its
\* batch are indexed when the ingestion succeeds.
C4_NoBlankIndexed ==
    /\ \A p \in points : ~AllSpace(p.payload.text)
    /\ \A i \in 1..Len(last.embedded) : ~AllSpace(last.embedded[i])
    /\ \A i \in 1..Len(last.upserted) : ~AllSpace(last.upserted[i].payload.text)
    /\ Ingested =>
         \A i \in 1..Len(last.documents) :
             ~AllSpace(last.documents[i].page_content)
                 => PointsFor(last.documents[i]) # {}

\* a batch of a whitespace-only and a non-empty document: the second is indexed
C4_Witness ==
    /\ last.op = "add_documents"
    /\ last.ok
    /\ Len(last.documents) = 2
    /\ last.documents[1].page_content = <<" ", "\n">>
    /\ ~AllSpace(last.documents[2].page_content)
    /\ Len(last.upserted) = 1
    /\ PointsFor(last.documents[2]) # {}

\* C5: a search in which the query embedding, the vector search or the
\* completion call failed ends in one domain error.
C5_SearchFailuresWrapped ==
    (last.op = "search" /\ last.failed \in {"embed_query", "search", "llm"})
        => (last.outcome = "raised" /\ last.error = "domain")

\* C6: a failed embedding or backend call is not answered normally by search
\* and not shown as a success by the upload.
C6_FailuresReported ==
    /\ (last.op = "search" /\ last.failed \in {"embed_query", "search"})
           => last.outcome # "returned"
    /\ (last.op = "upload" /\ last.failed \in {"embed_doc", "upsert"})
           => last.shown # "success"

\* the first place at or after from where needle starts in h, 0 if none
FindFrom(h, needle, from) ==
    LET at == { i \in from..(Len(h) - Len(needle) + 1) :
                  SubSeq(h, i, i + Len(needle) - 1) = needle }
    IN  IF at = {} THEN 0 ELSE CHOOSE i \in at : \A j \in at : i <= j

\* the needles occur in h one after the other, without overlap
RECURSIVE InOrderFrom(_, _, _)
InOrderFrom(needles, h, from) ==
    IF needles = <<>> THEN TRUE
    ELSE LET i == FindFrom(h, Head(needles), from)
         IN  i # 0 /\ InOrderFrom(Tail(needles), h, i + Len(Head(needles)))

InOrder(needles, h) == InOrderFrom(needles, h, 1)

\* query 1, answer 1, query 2, answer 2, ...
RECURSIVE QueriesAndAnswers(_)
QueriesAndAnswers(ts) ==
    IF ts = <<>> THEN <<>> ELSE <<Head(ts).q, Head(ts).a>> \o QueriesAndAnswers(Tail(ts))

\* the text between the conversation_history and user_question parts of the
\* prompt that was sent
HistoryIn(message) ==
    LET text == message[Len(message)].text
        from == CHOOSE i \in 1..Len(text) : text[i] = "<template: conversation_history>"
        to == CHOOSE i \in 1..Len(text) : text[i] = "<template: user_question>"
    IN  SubSeq(text, from + 1, to - 1)

\* the calls of the session recorded before the last operation, a search
EarlierTurns ==
    IF last.outcome = "returned"
    THEN SubSeq(turns[last.session], 1, Len(turns[last.session]) - 1)
    ELSE turns[last.session]

\* C7: the history in the prompt of a search holds the query and the answer of
\* every earlier call of the session since the last clear, in call order, as
\* does the transcript kept for the next call; it is empty for the first
\* call after a clear, and clear_history empties the transcript.
C7_HistoryInPrompt ==
    /\ \A s \in Sessions : InOrder(QueriesAndAnswers(turns[s]), history[s])
    /\ last.op = "search" =>
         /\ InOrder(QueriesAndAnswers(EarlierTurns), HistoryIn(last.message))
         /\ EarlierTurns = <<>> => HistoryIn(last.message) = <<>>
    /\ last.op = "clear_history" => history[last.session] = <<>>

\* the second successful search of a session: its prompt holds the first
C7_Witness ==
    /\ last.op = "search"
    /\ last.outcome = "returned"
    /\ Len(turns[last.session]) = 2
    /\ turns[last.session][1].q # turns[last.session][2].q
    /\ InOrder(<<turns[last.session][1].q, turns[last.session][1].a>>,
               HistoryIn(last.message))

IsPrefix(a, b) == Len(a) <= Len(b) /\ SubSeq(b, 1, Len(a)) = a

\* C8: the transcript of a session changes only by a search in which neither
\* the embedding nor the vector search nor the completion failed, which
\* appends its query and answer, and by clear_history, which empties it.
C8_TranscriptFrame ==
    [][\A s \in Sessions :
          \/ history'[s] = history[s]
          \/ /\ last'.op = "search"
             /\ last'.session = s
             /\ last'.outcome = "returned"
             /\ last'.failed \notin {"embed_query", "search", "llm"}
             /\ IsPrefix(history[s], history'[s])
             /\ InOrder(<<last'.query, last'.answer>>,
                        SubSeq(history'[s], Len(history[s]) + 1, Len(history'[s])))
          \/ /\ last'.op = "clear_history"
             /\ last'.session = s
             /\ history'[s] = <<>>]_vars

ExchangePieces(ts) == UNION { {ts[i].q[1], ts[i].a[1]} : i \in 1..Len(ts) }

AllExchangePieces == UNION { {x.q[1], x.a[1]} : x \in Exchanges }

\* C9: a search or a clear of one session leaves the transcript of every
\* other session as it was, and the history in the prompt of a search holds
\* no query or answer but those of its own session.
C9_SessionIsolation ==
    [][\A s \in Sessions :
          /\ (last'.op \in {"search", "clear_history"} /\ last'.session # s)
                 => history'[s] = history[s]
          /\ (last'.op = "search" /\ last'.session = s)
                 => { HistoryIn(last'.message)[i] : i \in 1..Len(HistoryIn(last'.message)) }
                      \cap AllExchangePieces
                    \subseteq ExchangePieces(turns[s])]_vars

\* session 2 searches with a transcript of its own while session 1 holds an
\* exchange that session 2 never had
C9_Witness ==
    /\ last.op = "search"
    /\ last.session = 2
    /\ last.outcome = "returned"
    /\ Len(turns[2]) = 2
    /\ HistoryIn(last.message) # <<>>
    /\ turns[1] # <<>>
    /\ ~(ExchangePieces(turns[1]) \subseteq ExchangePieces(turns[2]))

\* the image payloads in the metadata of the results, in result order
RECURSIVE Images(_)
Images(sources) ==
    IF sources = <<>> THEN <<>>
    ELSE (IF IsNone(Get(Head(sources).payload.metadata, K_image)) THEN <<>>
          ELSE <<Get(Head(sources).payload.metadata, K_image).str>>)
         \o Images(Tail(sources))

\* C10: the image payloads of the results stay out of the text context and go
\* to the completion call as image parts after the text part; the message is
\* plain text only when no result carries an image.
C10_ImagesAsParts ==
    last.op = "search" =>
        /\ \A i \in 1..Len(Images(last.sources)) :
               FindFrom(last.prompt.context, Images(last.sources)[i], 1) = 0
        /\ last.message =
               generate_messages(<<>>,
                                 FormatPrompt(last.prompt.history, last.prompt.context,
                                              last.prompt.question),
                                 Images(last.sources))

\* what the claim says a filter asks of a payload's metadata: every key's
\* condition, a scalar by equality, a list by membership, an operator object
\* by each of its known operators
AdmitsOp(v, name, bound) ==
    CASE name = OP_gte -> IsInt(v) /\ v.int >= bound.int
      [] name = OP_lte -> IsInt(v) /\ v.int <= bound.int
      [] name = OP_gt  -> IsInt(v) /\ v.int > bound.int
      [] name = OP_lt  -> IsInt(v) /\ v.int < bound.int
      [] OTHER         -> TRUE

Admits(metadata, metadata_filter) ==
    IsNone(metadata_filter)
    \/ \A i \in 1..Len(metadata_filter.dict) :
          LET v == Get(metadata, metadata_filter.dict[i].k)
              w == metadata_filter.dict[i].v
          IN  CASE IsDict(w) -> \A j \in 1..Len(w.dict) : AdmitsOp(v, w.dict[j].k, w.dict[j].v)
                [] IsList(w) -> \E j \in 1..Len(w.list) : v = w.list[j]
                [] OTHER     -> v = w

ResultDocs == { DocOf(last.sources[i]) : i \in 1..Len(last.sources) }

\* the chunks of the collection a search that went through has to return:
\* those the filter admits whose score reaches the threshold
Wanted ==
    { DocOf(p) : p \in { x \in points :
                           /\ Admits(x.payload.metadata, last.filter)
                           /\ Cosine(Embed(last.query), x.vector) >= last.threshold } }

SearchWentThrough ==
    last.op \in {"vector_search", "vector_search_twice"} /\ last.failed = "none"

AllYearsIndexed == {D2010, D2013, D2020} \subseteq { DocOf(p) : p \in points }

\* C11: a filtered search returns only chunks whose metadata meets the
\* condition of every filter key, and all of them when the limit does not cut
\* the list; with the years 2010, 2013 and 2020 indexed, year <= 2013 gives
\* the chunks of 2010 and 2013 and year in [2013, 2020] those of 2013 and 2020.
C11_FilterSemantics ==
    SearchWentThrough =>
        /\ ResultDocs \subseteq Wanted
        /\ Len(last.sources) < last.k => ResultDocs = Wanted
        /\ (AllYearsIndexed /\ last.query = Q1 /\ last.k = TopK
               /\ last.threshold = DefaultThreshold) =>
             /\ last.filter = F_lte2013 => ResultDocs = {D2010, D2013}
             /\ last.filter = F_in2013_2020 => ResultDocs = {D2013, D2020}

\* the three years indexed and year <= 2013 asked for: 2010 and 2013 come back
C11_Witness ==
    /\ last.op = "vector_search"
    /\ last.failed = "none"
    /\ AllYearsIndexed
    /\ last.filter = F_lte2013
    /\ ResultDocs = {D2010, D2013}

KnownOps == {OP_gte, OP_lte, OP_gt, OP_lt}

\* the number of conditions the claim gives a filter: one per scalar or list
\* key, one per known operator of an operator object
RECURSIVE ConditionCount(_)
ConditionCount(items) ==
    IF items = <<>> THEN 0
    ELSE (IF IsDict(Head(items).v)
          THEN Cardinality({ j \in 1..Len(Head(items).v.dict) :
                               Head(items).v.dict[j].k \in KnownOps })
          ELSE 1)
         + ConditionCount(Tail(items))

HasUnknownOp(metadata_filter) ==
    /\ ~IsNone(metadata_filter)
    /\ \E i \in 1..Len(metadata_filter.dict) :
          /\ IsDict(metadata_filter.dict[i].v)
          /\ \E j \in 1..Len(metadata_filter.dict[i].v.dict) :
                metadata_filter.dict[i].v.dict[j].k \notin KnownOps

\* the chunks whose score reaches the threshold, whatever their metadata
AboveThreshold ==
    { DocOf(p) : p \in { x \in points :
                           Cosine(Embed(last.query), x.vector) >= last.threshold } }

C13_BoundedRankedResults ==
    last.op \in {"vector_search", "vector_search_twice", "search"} =>
        /\ last.outcome = "returned"
        /\ last.op = "search" => last.k = TopK
        /\ Len(last.sources) <= last.k
        /\ \A i \in 1..Len(last.sources) : last.sources[i].score >= last.threshold
        /\ \A i, j \in 1..Len(last.sources) :
              i < j => last.sources[i].score >= last.sources[j].score
        /\ (points = {} \/ AboveThreshold = {}) => last.sources = <<>>

\* more chunks above the threshold than the limit allows: two are returned
C13_Witness ==
    /\ last.op = "vector_search"
    /\ last.failed = "none"
    /\ last.k = 2
    /\ IsNone(last.filter)
    /\ Cardinality(AboveThreshold) > 2
    /\ Len(last.sources) = 2
    /\ last.sources[1].score >= last.sources[2].score

Scores(results) == [i \in 1..Len(results) |-> results[i].score]

SearchedTwice == last.op = "vector_search_twice" /\ last.failed = "none"

C14_EmptyResultsAnswered ==
    (last.op = "search" /\ last.sources = <<>> /\ last.error # "raw") =>
        /\ last.outcome = "returned"
        /\ last.prompt.context = <<>>
        /\ Len(last.message) = 1
        /\ last.message[1].text
              = FormatPrompt(last.prompt.history, <<>>, last.query)
        /\ last.answer # <<>>
        /\ history[last.session]
              = last.prompt.history \o <<"query: ">> \o last.query
                \o <<" \n answer: ">> \o last.answer

\* a chunk is indexed but scores below the threshold for the query
C14_Witness ==
    /\ last.op = "search"
    /\ last.failed = "none"
    /\ points # {}
    /\ last.sources = <<>>
    /\ last.outcome = "returned"
    /\ last.prompt.context = <<>>
    /\ history[last.session] # <<>>

\* C15: create_collection returns and never raises; with every backend call
\* going through it returns True and the collection exists; it probes the
\* embedding dimension and creates the collection only when it found the
\* collection absent; a failing call makes it return False and leaves the
\* backend as it was; the points are never touched.
C15_CreateIfAbsent ==
    [][last'.op = "create_collection" =>
          /\ last'.outcome = "returned"
          /\ last'.failed = "none" => (last'.ok /\ exists')
          /\ last'.failed # "none" => (~last'.ok /\ exists' = exists)
          /\ last'.probed => ~exists
          /\ last'.created <=> (~exists /\ last'.ok)
          /\ ~last'.created => exists' = exists
          /\ points' = points]_vars

\* a call that found the collection there: True, nothing probed or created
C15_Witness ==
    /\ last.op = "create_collection"
    /\ last.ok
    /\ exists
    /\ ~last.probed
    /\ ~last.created
    /\ points # {}

\* C16: delete_collection with its backend calls going through returns True
\* whether or not the collection was there, and afterwards the collection and
\* its points are gone; on a collection that is not there it makes no delete
\* call and changes nothing; an add_documents that re-creates the collection
\* leaves in it only points of its own batch.
C16_DeleteIdempotent ==
    [][/\ last'.op = "delete_collection" =>
             /\ last'.outcome = "returned"
             /\ last'.failed = "none" => (last'.ok /\ ~exists' /\ points' = {})
             /\ ~exists => /\ last'.failed # "delete_collection"
                           /\ exists' = exists
                           /\ points' = points
                           /\ last'.failed # "get_collections" => last'.ok
       /\ (last'.op \in {"add_documents", "upload"} /\ ~exists /\ exists') =>
             points' \subseteq { last'.upserted[i] : i \in 1..Len(last'.upserted) }
       /\ ~exists' => points' = {}]_vars

\* a delete that found the collection: True, no collection, no points
C16_Witness ==
    /\ last.op = "delete_collection"
    /\ last.existed
    /\ last.ok
    /\ ~exists
    /\ points = {}

\* C17: the count of document chunks shown after an upload is the number of
\* points the ingestion upserted, none when the ingestion failed.
C17_UploadCountsReported ==
    (last.op = "upload" /\ last.shown = "success") =>
        last.shownCount = (IF last.ok THEN Len(last.upserted) ELSE 0)

\* str.split(sep) of h from position from on
RECURSIVE SplitFrom(_, _, _)
SplitFrom(h, sep, from) ==
    LET i == FindFrom(h, sep, from)
    IN  IF i = 0 THEN <<SubSeq(h, from, Len(h))>>
        ELSE <<SubSeq(h, from, i - 1)>> \o SplitFrom(h, sep, i + Len(sep))

Split(h, sep) == SplitFrom(h, sep, 1)

\* str.count(sep)
StrCount(h, sep) == Len(Split(h, sep)) - 1

Contains(h, needle) == FindFrom(h, needle, 1) # 0

\* one result as the context shows it: its text, then its annotation lines
Segment(result) == Join(<<"\n">>, <<result.text>> \o ContentInfo(result.metadata))

HasRuleLine(text) ==
    \E i \in 1..Len(Split(text, <<"\n">>)) : Split(text, <<"\n">>)[i] = <<"-", "-", "-">>

\* the separator stands exactly between consecutive results of the context
SeparatedInOrder ==
    IF last.results = <<>> THEN last.prompt.context = <<>>
    ELSE /\ StrCount(last.prompt.context, Separator) = Len(last.results) - 1
         /\ Len(Split(last.prompt.context, Separator)) = Len(last.results)
         /\ \A i \in 1..Len(last.results) :
               IsPrefix(last.results[i].text, Split(last.prompt.context, Separator)[i])

\* C18 as stated: results whose texts do not hold the separator give a
\* context with one separator between each two consecutive results, none
\* elsewhere, the results in their order, and the empty string for no result.
C18_SeparatorsBetweenTexts ==
    (last.op = "process_context"
        /\ \A i \in 1..Len(last.results) : ~Contains(last.results[i].text, Separator))
    => SeparatedInOrder

\* C18: results none of which, as text followed by annotation lines, has a
\* line of exactly three dashes give a context with one separator between
\* each two consecutive results, none elsewhere, the results in their order,
\* and the empty string for no result.
C18_SeparatorsBetweenSegments ==
    (last.op = "process_context"
        /\ \A i \in 1..Len(last.results) : ~HasRuleLine(Segment(last.results[i])))
    => SeparatedInOrder

\* two annotated results: one separator, between them
C18_Witness ==
    /\ last.op = "process_context"
    /\ Len(last.results) = 2
    /\ \A i \in 1..2 : /\ ~HasRuleLine(Segment(last.results[i]))
                       /\ last.results[i].metadata # <<>>
    /\ last.results[1].text = <<"a">>
    /\ last.results[2].text = <<"b">>
    /\ StrCount(last.prompt.context, Separator) = 1
    /\ last.prompt.context = Segment(last.results[1]) \o Separator \o Segment(last.results[2])

\* C20: an add_documents call of either caller, however its steps interleave
\* with the other's, returns True and leaves the non-blank chunks of its
\* batch indexed.
C20_ConcurrentIngestionKeepsBoth ==
    \A c \in Callers :
        calls[c].pc = "done" =>
            /\ calls[c].ok
            /\ \A i \in 1..Len(calls[c].documents) :
                  ~AllSpace(calls[c].documents[i].page_content)
                      => PointsFor(calls[c].documents[i]) # {}

====
